---- MODULE Spec2Model ----
(***************************************************************************)
(* API-key resolution of aws-cdk-secure-api: SecureRestApi.__init__        *)
(* (local key cache -> SSM Parameter Store -> Secrets Manager generator),  *)
(* the module-level cache of cache.py and the SSM / Secrets Manager        *)
(* wrappers.  Several tool invocations (processes) share one cache file    *)
(* and one parameter store.                                                *)
(***************************************************************************)
EXTENDS Integers, Sequences, FiniteSets, TLC

VARIABLES
    cacheFile,  \* ~/.cdk/cache/apigw_api_keys.json, shared by all processes
    ssmStore,   \* SSM Parameter Store: parameter name -> parameter record
    keys,       \* keys[p]: the module-level _keys mapping of process p
    pc,         \* pc[p]: where process p stands
    cur,        \* cur[p]: the SecureRestApi.__init__ call of p, with its call log
    returned,   \* returned[p][<<a, s>>]: last value resolved for the pair in this process
    nResolve,   \* constructs created so far, over all processes
    nImport,    \* tool invocations started so far
    genAbsent,  \* genAbsent[s]: generate calls made while /s/api-key was absent
    genLost,    \* genLost[s]: those whose attempt then aborted (generate or put failed)
    api         \* a constructed REST API: its kind and what was registered on it

vars == <<cacheFile, ssmStore, keys, pc, cur, returned, nResolve, nImport,
          genAbsent, genLost, api>>

----------------------------------------------------------------------------
(* Bounds and input sets *)

MaxResolves == 2
MaxImports == 2
MaxApiCalls == 2

Procs == {"p1", "p2"}
Accounts == {"a1", "a2"}
Stacks == {"s1", "s2"}
Secrets == {"k1", "k2"}
KeyIds == {"", "kms1"}            \* config.key_id: None/empty or a KMS key id
Faults == {"none", "AccessDeniedException"}
\* (test, config.key_id) of a construct; test constructs carry no key id
Modes == {<<FALSE, k>> : k \in KeyIds} \cup {<<TRUE, "">>}

----------------------------------------------------------------------------
(* Python values held in api_key_value.  A str is kept as the sequence of   *)
(* its comma-free segments, so "k1,k2" is Str(<<"k1", "k2">>).              *)

None == [t |-> "none", v |-> <<>>]
Str(segs) == [t |-> "str", v |-> segs]
List(items) == [t |-> "list", v |-> items]

\* str.split(','): the list of the comma-separated segments
split_comma(segs) == List(segs)

\* put_param(..., overwrite=False): the default the resolver relies on
PutOverwriteDefaultTrue == TRUE

PutOverwriteDefault == FALSE

\* generate_api_key(length=32) default; SecureRestApi asks for 40
DefaultKeyLength == 32

ApiKeyLength == 40

TestApiKey == Str(<<"test123">>)

\* f'/{stack_name}/api-key'
ParamName(stack_name) == <<"/", stack_name, "/api-key">>
ParamNames == {ParamName(s) : s \in Stacks}

----------------------------------------------------------------------------
(* SSM Parameter Store (the service behind SSM.client) *)

NoParam == [Type |-> "absent", Value |-> <<>>, KeyId |-> ""]

\* client.get_parameter(Name=name, WithDecryption=True)
ssm_get_parameter(store, name, fault) ==
    IF fault # "none" THEN [err |-> fault, Parameter |-> NoParam]
    ELSE IF store[name].Type = "absent"
         THEN [err |-> "ParameterNotFound", Parameter |-> NoParam]
         ELSE [err |-> "none", Parameter |-> store[name]]

\* client.put_parameter(Name, Value, Type, Overwrite, Tier, DataType, KeyId?)
ssm_put_parameter(store, req, fault) ==
    IF fault # "none" THEN [err |-> fault, store |-> store]
    ELSE IF store[req.Name].Type # "absent" /\ ~req.Overwrite
         THEN [err |-> "ParameterAlreadyExists", store |-> store]
         ELSE [err |-> "none",
               store |-> [store EXCEPT ![req.Name] =
                            [Type |-> req.Type, Value |-> req.Value,
                             KeyId |-> req.KeyId]]]

\* SSM.get_param: None on ParameterNotFound, any other error is raised
get_param_catch_all(resp) ==
    IF resp.err = "none"
    THEN [raise |-> "none",
          ret |-> IF resp.Parameter.Type = "StringList"
                  THEN split_comma(resp.Parameter.Value)
                  ELSE Str(resp.Parameter.Value)]
    ELSE [raise |-> "none", ret |-> None]

get_param(resp) ==
    IF resp.err = "none"
    THEN [raise |-> "none",
          ret |-> IF resp.Parameter.Type = "StringList"
                  THEN split_comma(resp.Parameter.Value)
                  ELSE Str(resp.Parameter.Value)]
    ELSE IF resp.err = "ParameterNotFound"
         THEN [raise |-> "none", ret |-> None]
         ELSE [raise |-> resp.err, ret |-> None]

\* SSM.put_param(name, value, key_id=...): the request it sends
put_param_request(name, value, key_id, overwrite) ==
    [Name |-> name, Value |-> value.v, Type |-> "SecureString",
     Overwrite |-> overwrite, KeyId |-> key_id]

\* SecretsManager.generate_api_key: res['RandomPassword'] of get_random_password
generate_api_key_fallback(length, secret, fault) ==
    [raise |-> "none", ret |-> Str(<<secret>>), length |-> length]

generate_api_key(length, secret, fault) ==
    IF fault # "none" THEN [raise |-> fault, ret |-> None, length |-> length]
    ELSE [raise |-> "none", ret |-> Str(<<secret>>), length |-> length]

----------------------------------------------------------------------------
(* cache.py: the module-level mapping and its JSON file *)

EmptyDict == [x \in {} |-> None]

\* json.dump(_keys): the object as a set of (account, set of (stack, value))
json_dump(d) == {<<a, {<<s, d[a][s]>> : s \in DOMAIN d[a]}>> : a \in DOMAIN d}

\* json.load: the mapping an object text denotes
json_load(doc) ==
    LET accts == {e[1] : e \in doc}
        inner(a) == (CHOOSE e \in doc : e[1] = a)[2]
    IN  [a \in accts |->
            [s \in {m[1] : m \in inner(a)} |->
                (CHOOSE m \in inner(a) : m[1] = s)[2]]]

\* number of characters of the text json.dump writes, with its default
\* separators ', ' and ': '
RECURSIVE SumLen(_)
SumLen(segs) == IF segs = <<>> THEN 0 ELSE Len(Head(segs)) + SumLen(Tail(segs))

json_len_value(x) ==
    IF x.t = "str" THEN 2 + SumLen(x.v) + (Len(x.v) - 1)           \* "k1,k2"
    ELSE IF x.t = "list" THEN 2 + SumLen(x.v) + 2 * Len(x.v) + 2 * (Len(x.v) - 1)
    ELSE 4                                                          \* null

RECURSIVE json_len_members(_)
json_len_members(ms) ==
    IF ms = {} THEN 0
    ELSE LET m == CHOOSE x \in ms : TRUE
         IN  (Len(m[1]) + 2) + 2 + m[2] + json_len_members(ms \ {m})

json_len_object(ms) ==
    2 + json_len_members(ms) + (IF ms = {} THEN 0 ELSE 2 * (Cardinality(ms) - 1))

json_len(d) ==
    json_len_object(
        {<<a, json_len_object({<<s, json_len_value(d[a][s])>> : s \in DOMAIN d[a]})>> :
            a \in DOMAIN d})

NoFile == [state |-> "missing", doc |-> {}, len |-> 0]
JsonFile(d) == [state |-> "json", doc |-> json_dump(d), len |-> json_len(d)]

\* _cache.open('w'): the file exists and is empty, which is no JSON text
EmptyFile == [state |-> "malformed", doc |-> {}, len |-> 0]

\* APIKeyCache.get_api_key
get_api_key_miss(d, account, stack_name) == None

get_api_key(d, account, stack_name) ==
    IF account \in DOMAIN d /\ stack_name \in DOMAIN d[account]
    THEN d[account][stack_name]
    ELSE None

set_key_forget(d, account, stack_name, api_key) == d

set_key_only(d, account, stack_name, api_key) ==
    [a \in {account} |-> [s \in {stack_name} |-> api_key]]

\* _keys.setdefault(account, {})[stack_name] = api_key
set_key(d, account, stack_name, api_key) ==
    LET old == IF account \in DOMAIN d THEN d[account] ELSE EmptyDict
        new == [s \in DOMAIN old \cup {stack_name} |->
                   IF s = stack_name THEN api_key ELSE old[s]]
    IN  [a \in DOMAIN d \cup {account} |-> IF a = account THEN new ELSE d[a]]

\* lines 44-45: json.dump(_keys, out_file) and close, on the handle opened with
\* 'w': the text goes to offset 0 of the file as it is now, and what another
\* writer put beyond the end of the text stays
write_keys(file, d) ==
    IF json_len(d) >= file.len THEN JsonFile(d)
    ELSE [state |-> "malformed", doc |-> {}, len |-> file.len]

----------------------------------------------------------------------------
(* State of one SecureRestApi.__init__ call *)

\* one entry of the call log: the call, what the service answered (out) and
\* the exception that left the wrapper (raised)
Call(op, name, val, keyId, overwrite, len, out, raised) ==
    [op |-> op, name |-> name, val |-> val, keyId |-> keyId,
     overwrite |-> overwrite, len |-> len, out |-> out, raised |-> raised]

NoCall == [account |-> "", stack |-> "", keyId |-> "", test |-> FALSE,
           status |-> "none", value |-> None, error |-> "none",
           prev |-> None, local0 |-> None, remote0 |-> NoParam,
           calls |-> <<>>, declared |-> None, output |-> None,
           counted |-> FALSE, lookups |-> 0]

\* the entry the mapping d holds for the pair, None when it holds none
\* (what the call log records of the cache; read directly off the mapping)
CacheEntry(d, a, s) ==
    IF a \in DOMAIN d /\ s \in DOMAIN d[a] THEN d[a][s] ELSE None

\* the (account, stack) pairs constructs are created for
Pairs == {<<"a1", "s1">>, <<"a2", "s1">>, <<"a1", "s2">>}

MalformedFile == [state |-> "malformed", doc |-> {}, len |-> 1]

K1 == Str(<<"k1">>)
K2 == Str(<<"k2">>)

\* no REST API whose methods are being registered
NoApi == [kind |-> "none", methods |-> <<>>, resources |-> <<>>,
          outputs |-> <<>>, error |-> "", nCalls |-> 0,
          last |-> [op |-> "", methods |-> <<>>,
                    resource |-> [given |-> FALSE, path |-> <<>>], before |-> 0]]

FileInits ==
    { NoFile,
      MalformedFile,
      JsonFile(set_key(EmptyDict, "a1", "s1", K1)) }

ParamInits(s) ==
    IF s = "s1"
    THEN { NoParam,
           [Type |-> "SecureString", Value |-> <<"k2">>, KeyId |-> ""],
           [Type |-> "StringList", Value |-> <<"k1", "k2">>, KeyId |-> ""] }
    ELSE { NoParam }

StoreInits ==
    { [n \in ParamNames |-> IF n = ParamName("s1") THEN x ELSE y] :
        x \in ParamInits("s1"), y \in ParamInits("s2") }

Init ==
    /\ cacheFile \in FileInits
    /\ ssmStore \in StoreInits
    /\ keys = [p \in Procs |-> EmptyDict]
    /\ pc = [p \in Procs |-> "off"]
    /\ cur = [p \in Procs |-> NoCall]
    /\ returned = [p \in Procs |-> [k \in Pairs |-> None]]
    /\ nResolve = 0
    /\ nImport = 0
    /\ genAbsent = [s \in Stacks |-> 0]
    /\ genLost = [s \in Stacks |-> 0]
    /\ api = NoApi

----------------------------------------------------------------------------
(* cache.py module import: one per tool invocation *)

\* a loader that takes any unreadable file for an empty cache
load_keys_reset(file) ==
    [raise |-> "none",
     keys |-> IF file.state = "json" THEN json_load(file.doc) ELSE EmptyDict]

\* lines 14-19: json.load of the cache file; only FileNotFoundError is caught
load_keys(file) ==
    IF file.state = "missing" THEN [raise |-> "none", keys |-> EmptyDict]
    ELSE IF file.state = "malformed"
    THEN [raise |-> "JSONDecodeError", keys |-> EmptyDict]   \* _keys is never bound
    ELSE [raise |-> "none", keys |-> json_load(file.doc)]

Import(p) ==
    /\ pc[p] \in {"off", "idle"}
    /\ nImport < MaxImports
    /\ nImport' = nImport + 1
    /\ cur' = [cur EXCEPT ![p] = NoCall]
    /\ returned' = [returned EXCEPT ![p] = [k \in Pairs |-> None]]
    /\ LET r == load_keys(cacheFile)
       IN  /\ pc' = [pc EXCEPT ![p] = IF r.raise # "none" THEN "crashed" ELSE "idle"]
           /\ keys' = [keys EXCEPT ![p] = r.keys]
    /\ UNCHANGED <<cacheFile, ssmStore, nResolve, genAbsent, genLost, api>>

----------------------------------------------------------------------------
(* SecureRestApi.__init__ *)

\* lines 122-167: add_api_key, add_usage_plan, CfnOutput('APIKey')
Declare(c, api_key_value) ==
    [c EXCEPT !.status = "done", !.value = api_key_value,
              !.declared = api_key_value, !.output = api_key_value]

\* an exception leaves __init__: nothing is declared
Abort(c, err) == [c EXCEPT !.status = "failed", !.error = err]

\* lines 81-86: 'test123' in test mode, else cache.get_api_key()
initial_api_key_no_test(test, d, account, stack_name) ==
    [value |-> get_api_key(d, account, stack_name), lookups |-> 1]

initial_api_key(test, d, account, stack_name) ==
    IF test THEN [value |-> TestApiKey, lookups |-> 0]
    ELSE [value |-> get_api_key(d, account, stack_name), lookups |-> 1]

\* lines 65-88: test mode, or the local cache lookup
Resolve(p, account, stack_name, test, key_id) ==
    /\ pc[p] = "idle"
    /\ nResolve < MaxResolves
    /\ nResolve' = nResolve + 1
    /\ LET first == initial_api_key(test, keys[p], account, stack_name)
           c == [NoCall EXCEPT !.account = account, !.stack = stack_name,
                               !.keyId = key_id, !.test = test,
                               !.status = "running",
                               !.lookups = first.lookups,
                               !.prev = returned[p][<<account, stack_name>>],
                               !.local0 = CacheEntry(keys[p], account, stack_name),
                               !.remote0 = ssmStore[ParamName(stack_name)]]
           api_key_value == first.value
       IN  IF api_key_value # None
           THEN /\ cur' = [cur EXCEPT ![p] = Declare(c, api_key_value)]
                /\ returned' = IF test THEN returned
                               ELSE [returned EXCEPT ![p][<<account, stack_name>>] =
                                        api_key_value]
                /\ pc' = pc
           ELSE /\ cur' = [cur EXCEPT ![p] = c]
                /\ returned' = returned
                /\ pc' = [pc EXCEPT ![p] = "get"]
    /\ UNCHANGED <<cacheFile, ssmStore, keys, nImport, genAbsent, genLost, api>>

\* lines 99-104: ssm.get_param(param_name)
GetParam(p, fault) ==
    /\ pc[p] = "get"
    /\ LET c == cur[p]
           name == ParamName(c.stack)
           resp == ssm_get_parameter(ssmStore, name, fault)
           r == get_param(resp)
           c2 == [c EXCEPT !.calls = Append(@,
                     Call("get", name, r.ret, "", FALSE, 0, resp.err, r.raise))]
       IN  IF r.raise # "none"
           THEN /\ cur' = [cur EXCEPT ![p] = Abort(c2, r.raise)]
                /\ pc' = [pc EXCEPT ![p] = "idle"]
                /\ UNCHANGED <<keys, cacheFile, returned>>
           ELSE IF r.ret = None
           THEN /\ cur' = [cur EXCEPT ![p] = c2]
                /\ pc' = [pc EXCEPT ![p] = "gen"]
                /\ UNCHANGED <<keys, cacheFile, returned>>
           ELSE /\ cur' = [cur EXCEPT ![p] = [c2 EXCEPT !.value = r.ret]]
                /\ pc' = [pc EXCEPT ![p] = "save"]
                /\ UNCHANGED <<keys, cacheFile, returned>>
    /\ UNCHANGED <<ssmStore, nResolve, nImport, genAbsent, genLost, api>>

\* lines 108-109: sm.generate_api_key(40)
GenerateApiKey(p, secret, fault) ==
    /\ pc[p] = "gen"
    /\ LET c == cur[p]
           name == ParamName(c.stack)
           absent == ssmStore[name].Type = "absent"
           r == generate_api_key(ApiKeyLength, secret, fault)
           c2 == [c EXCEPT !.calls = Append(@,
                     Call("gen", <<>>, r.ret, "", FALSE, r.length, fault, r.raise)),
                           !.counted = absent]
       IN  /\ genAbsent' = IF absent THEN [genAbsent EXCEPT ![c.stack] = @ + 1]
                           ELSE genAbsent
           /\ IF r.raise # "none"
              THEN /\ cur' = [cur EXCEPT ![p] = Abort(c2, r.raise)]
                   /\ pc' = [pc EXCEPT ![p] = "idle"]
                   /\ genLost' = IF absent THEN [genLost EXCEPT ![c.stack] = @ + 1]
                                 ELSE genLost
              ELSE /\ cur' = [cur EXCEPT ![p] = [c2 EXCEPT !.value = r.ret]]
                   /\ pc' = [pc EXCEPT ![p] = "put"]
                   /\ genLost' = genLost
    /\ UNCHANGED <<cacheFile, ssmStore, keys, returned, nResolve, nImport, api>>

\* lines 115-118: ssm.put_param(param_name, api_key_value, key_id=config.key_id)
PutParam(p, fault) ==
    /\ pc[p] = "put"
    /\ LET c == cur[p]
           name == ParamName(c.stack)
           req == put_param_request(name, c.value, c.keyId, PutOverwriteDefault)
           res == ssm_put_parameter(ssmStore, req, fault)
           c2 == [c EXCEPT !.calls = Append(@,
                     Call("put", name, c.value, req.KeyId, req.Overwrite, 0, res.err,
                          res.err))]
       IN  /\ ssmStore' = res.store
           /\ IF res.err # "none"
              THEN /\ cur' = [cur EXCEPT ![p] = Abort(c2, res.err)]
                   /\ pc' = [pc EXCEPT ![p] = "idle"]
                   /\ genLost' = IF c.counted THEN [genLost EXCEPT ![c.stack] = @ + 1]
                                 ELSE genLost
              ELSE /\ cur' = [cur EXCEPT ![p] = c2]
                   /\ pc' = [pc EXCEPT ![p] = "save"]
                   /\ genLost' = genLost
    /\ UNCHANGED <<keys, cacheFile, returned, nResolve, nImport, genAbsent, api>>

\* line 120, cache.py lines 42-44: the entry is set in _keys and the file is
\* opened for writing, which creates or empties it
SaveApiKeyOpen(p) ==
    /\ pc[p] = "save"
    /\ keys' = [keys EXCEPT ![p] = set_key(@, cur[p].account, cur[p].stack,
                                           cur[p].value)]
    /\ cacheFile' = EmptyFile
    /\ pc' = [pc EXCEPT ![p] = "dump"]
    /\ UNCHANGED <<ssmStore, cur, returned, nResolve, nImport, genAbsent,
                   genLost, api>>

\* cache.py line 45: the mapping is written and the file closed; then the
\* declarations of lines 122-167
SaveApiKeyDump(p) ==
    /\ pc[p] = "dump"
    /\ LET c == cur[p]
           c2 == [c EXCEPT !.calls = Append(@,
                     Call("save", <<c.account, c.stack>>, c.value, "",
                          FALSE, 0, "none", "none"))]
       IN  /\ cacheFile' = write_keys(cacheFile, keys[p])
           /\ cur' = [cur EXCEPT ![p] = Declare(c2, c.value)]
           /\ returned' = [returned EXCEPT ![p][<<c.account, c.stack>>] = c.value]
           /\ pc' = [pc EXCEPT ![p] = "idle"]
    /\ UNCHANGED <<ssmStore, keys, nResolve, nImport, genAbsent, genLost, api>>

Next ==
    \/ \E p \in Procs : Import(p)
    \/ \E p \in Procs, k \in Pairs, m \in Modes : Resolve(p, k[1], k[2], m[1], m[2])
    \/ \E p \in Procs, f \in Faults : GetParam(p, f)
    \/ \E p \in Procs, k \in Secrets, f \in Faults : GenerateApiKey(p, k, f)
    \/ \E p \in Procs, f \in Faults : PutParam(p, f)
    \/ \E p \in Procs : SaveApiKeyOpen(p)
    \/ \E p \in Procs : SaveApiKeyDump(p)

Spec == Init /\ [][Next]_vars

\* the same program started with no cache file
InitEmptyCache ==
    /\ Init
    /\ cacheFile = NoFile

SpecEmptyCache == InitEmptyCache /\ [][Next]_vars

\* __init__ runs sequentially: a call that was issued returns or raises, and the
\* statement after it runs
FairSpec ==
    /\ Spec
    /\ \A p \in Procs :
          /\ WF_vars(\E f \in Faults : GetParam(p, f))
          /\ WF_vars(\E k \in Secrets, f \in Faults : GenerateApiKey(p, k, f))
          /\ WF_vars(\E f \in Faults : PutParam(p, f))
          /\ WF_vars(SaveApiKeyOpen(p))
          /\ WF_vars(SaveApiKeyDump(p))

----------------------------------------------------------------------------
(* add_methods, add_lambda_methods, add_resource_and_lambda_methods of       *)
(* SecureRestApi and IAMSecureRestApi                                        *)

ApiKinds == {"SecureRestApi", "IAMSecureRestApi"}

\* a method argument: an Http enum member or a raw string
HttpMember(n) == [kind |-> "Http", name |-> n]
RawMethod(s) == [kind |-> "str", name |-> s]
MethodArgs == {HttpMember("GET"), RawMethod("POST")}
MethodLists ==
    {<<>>} \cup {<<m>> : m \in MethodArgs}
           \cup {<<m, n>> : m \in MethodArgs, n \in MethodArgs}

\* a resource argument: None, or a resource object, named by its path (an
\* object is never falsy, whatever its path)
NoResource == [given |-> FALSE, path |-> <<>>]
Resource(path) == [given |-> TRUE, path |-> path]
RootResource == <<"/">>
ResourceArgs == {NoResource, Resource(<<"items">>)}
ResourceNames == {<<"/", "path1">>, <<"/", "/", "path2">>, <<"/">>}
Targets == {<<"Integration", "t1">>}
Handlers == {"handler1"}

AtLeastOneMethod == "At least one HTTP method is required."

\* getattr(method, 'name', method)
http_meth(method) == method.name

\* resource_name.lstrip('/')
RECURSIVE lstrip_slash(_)
lstrip_slash(name) ==
    IF name # <<>> /\ Head(name) = "/" THEN lstrip_slash(Tail(name)) ELSE name

\* (resource or self.root).add_method(http_meth, target, ...)
add_method_open(kind, resource, method, target) ==
    [resource |-> IF resource.given THEN resource.path ELSE RootResource,
     http |-> http_meth(method), target |-> target,
     api_key_required |-> FALSE,
     authorization_type |-> "NONE"]

add_method(kind, resource, method, target) ==
    [resource |-> IF resource.given THEN resource.path ELSE RootResource,
     http |-> http_meth(method), target |-> target,
     api_key_required |-> (kind = "SecureRestApi"),
     authorization_type |-> IF kind = "IAMSecureRestApi" THEN "IAM" ELSE "NONE"]

\* add_methods(target, *methods, resource=None)
add_methods(a, target, methods, resource) ==
    IF methods = <<>>
    THEN [a EXCEPT !.error = AtLeastOneMethod]
    ELSE [a EXCEPT !.methods = @ \o
            [i \in 1..Len(methods) |-> add_method(a.kind, resource, methods[i], target)]]

\* add_lambda_methods(handler, *methods, resource=None)
add_lambda_methods(a, handler, methods, resource) ==
    add_methods(a, <<"LambdaIntegration", handler>>, methods, resource)

\* add_resource_and_lambda_methods(handler, resource_name, *methods)
add_resource_and_lambda_methods(a, handler, resource_name, methods) ==
    LET stripped == lstrip_slash(resource_name)
        a1 == [a EXCEPT !.resources = Append(@, stripped)]   \* root.add_resource
        a2 == add_lambda_methods(a1, handler, methods, Resource(stripped))
    IN  IF a2.error # ""
        THEN a2                                   \* raised before the CfnOutput
        ELSE [a2 EXCEPT !.outputs = Append(@, <<"APIUrl", stripped>>)]

\* the API as a call finds it: the previous call's exception is gone
Called(op, methods, resource) ==
    [api EXCEPT !.error = "", !.nCalls = @ + 1,
                !.last = [op |-> op, methods |-> methods, resource |-> resource,
                          before |-> Len(api.methods)]]

AddMethods(target, methods, resource) ==
    /\ api.kind \in ApiKinds /\ api.nCalls < MaxApiCalls
    /\ api' = add_methods(Called("add_methods", methods, resource),
                          target, methods, resource)
    /\ UNCHANGED <<cacheFile, ssmStore, keys, pc, cur, returned, nResolve,
                   nImport, genAbsent, genLost>>

AddLambdaMethods(handler, methods, resource) ==
    /\ api.kind \in ApiKinds /\ api.nCalls < MaxApiCalls
    /\ api' = add_lambda_methods(Called("add_lambda_methods", methods, resource),
                                 handler, methods, resource)
    /\ UNCHANGED <<cacheFile, ssmStore, keys, pc, cur, returned, nResolve,
                   nImport, genAbsent, genLost>>

AddResourceAndLambdaMethods(handler, resource_name, methods) ==
    /\ api.kind \in ApiKinds /\ api.nCalls < MaxApiCalls
    /\ api' = add_resource_and_lambda_methods(
                  Called("add_resource_and_lambda_methods", methods,
                         Resource(lstrip_slash(resource_name))),
                  handler, resource_name, methods)
    /\ UNCHANGED <<cacheFile, ssmStore, keys, pc, cur, returned, nResolve,
                   nImport, genAbsent, genLost>>

\* a constructed API of either kind, nothing registered yet
InitMethods ==
    /\ cacheFile = NoFile
    /\ ssmStore = [n \in ParamNames |-> NoParam]
    /\ keys = [p \in Procs |-> EmptyDict]
    /\ pc = [p \in Procs |-> "off"]
    /\ cur = [p \in Procs |-> NoCall]
    /\ returned = [p \in Procs |-> [k \in Pairs |-> None]]
    /\ nResolve = 0
    /\ nImport = 0
    /\ genAbsent = [s \in Stacks |-> 0]
    /\ genLost = [s \in Stacks |-> 0]
    /\ api \in {[NoApi EXCEPT !.kind = k] : k \in ApiKinds}

NextMethods ==
    \/ \E t \in Targets, m \in MethodLists, r \in ResourceArgs : AddMethods(t, m, r)
    \/ \E h \in Handlers, m \in MethodLists, r \in ResourceArgs :
          AddLambdaMethods(h, m, r)
    \/ \E h \in Handlers, n \in ResourceNames, m \in MethodLists :
          AddResourceAndLambdaMethods(h, n, m)

SpecMethods == InitMethods /\ [][NextMethods]_vars

----------------------------------------------------------------------------
(* Reading a call log *)


CallsOf(c, op) == {i \in DOMAIN c.calls : c.calls[i].op = op}
RemoteCalls(c) == CallsOf(c, "get") \cup CallsOf(c, "gen") \cup CallsOf(c, "put")
Ops(c) == [i \in DOMAIN c.calls |-> c.calls[i].op]

\* the value a get of the parameter record hands to the resolver
ValueOf(param) == get_param([err |-> "none", Parameter |-> param]).ret

\* a remote call of the log was answered with an error (not-found is no error)
FailedCalls(c) ==
    {i \in RemoteCalls(c) : c.calls[i].out \notin {"none", "ParameterNotFound"}}

\* attempts on stack s between their generate and their put
\* the entry a cache file holds for the pair, None when it holds none
FileEntry(f, a, s) ==
    LET hits == {x \in UNION {e[2] : e \in {e \in f.doc : e[1] = a}} : x[1] = s}
    IN  IF f.state = "json" /\ hits # {} THEN (CHOOSE x \in hits : TRUE)[2] ELSE None

\* this step is process p entering save_api_key (entry set, file opened)
OpenStep(p) == pc[p] = "save" /\ pc'[p] = "dump"

\* this step completes a save_api_key call of process p
SaveStep(p) == pc[p] = "dump" /\ pc'[p] = "idle"

InFlight(s) == {p \in Procs : pc[p] = "put" /\ cur[p].stack = s /\ cur[p].counted}

----------------------------------------------------------------------------
\* C1: when a non-test resolve succeeded for a pair in this process, a later
\* resolve of the same pair returns the identical value and makes no remote call.
C1_IdempotentResolution ==
    \A p \in Procs :
        LET c == cur[p] IN
        (c.status # "running" /\ c.status # "none" /\ ~c.test /\ c.prev # None) =>
            /\ c.status = "done"
            /\ c.value = c.prev
            /\ RemoteCalls(c) = {}

C1_Witness ==
    \E p \in Procs :
        /\ cur[p].status = "done" /\ ~cur[p].test /\ cur[p].prev # None
        /\ cur[p].local0 = cur[p].prev

\* C2: with a local entry and a different remote value, resolve returns the
\* local value, makes no remote call, and leaves both as they were.
C2_PriorityOrder ==
    \A p \in Procs :
        LET c == cur[p] IN
        (/\ c.status \notin {"none", "running"} /\ ~c.test
         /\ c.local0 # None
         /\ c.remote0.Type # "absent"
         /\ ValueOf(c.remote0) # c.local0) =>
            /\ c.status = "done"
            /\ c.value = c.local0
            /\ c.calls = <<>>
            /\ ssmStore[ParamName(c.stack)] = c.remote0
            /\ CacheEntry(keys[p], c.account, c.stack) = c.local0

C2_Witness ==
    \E p \in Procs :
        /\ cur[p].status = "done" /\ ~cur[p].test
        /\ cur[p].local0 # None
        /\ cur[p].remote0.Type # "absent"
        /\ ValueOf(cur[p].remote0) # cur[p].local0

\* C3: with no local entry and a remote value v, a successful resolve returns
\* v, calls neither generate nor put, and leaves the cache (mapping and file)
\* holding the pair -> v.
C3_WriteThroughRepair ==
    [][\A p \in Procs :
        (/\ cur[p].status = "running" /\ cur'[p].status = "done"
         /\ cur[p].local0 = None
         /\ cur[p].remote0.Type # "absent") =>
            LET c == cur'[p]
                v == Str(c.remote0.Value)
            IN  /\ c.value = v
                /\ CallsOf(c, "gen") = {} /\ CallsOf(c, "put") = {}
                /\ CacheEntry(keys'[p], c.account, c.stack) = v
                /\ cacheFile'.state = "json"
                /\ CacheEntry(json_load(cacheFile'.doc), c.account, c.stack) = v
      ]_vars

\* C4 (as claimed): generate is invoked at most once while the remote store
\* holds no value for the stack, over all attempts, aborted ones included.
C4_AtMostOneGeneration ==
    \A s \in Stacks : genAbsent[s] <= 1

\* C4 (amended): not counting the attempts that aborted in generate or put and
\* the attempts still between generate and put, generate is invoked at most once
\* while the remote store holds no value; each attempt generates at most once.
C4_AtMostOneKeptGeneration ==
    /\ \A s \in Stacks :
          genAbsent[s] - genLost[s] - Cardinality(InFlight(s)) <= 1
    /\ \A p \in Procs : Cardinality(CallsOf(cur[p], "gen")) <= 1

C4_Witness ==
    \E s \in Stacks :
        /\ genAbsent[s] = 2 /\ genLost[s] = 1
        /\ ssmStore[ParamName(s)].Type # "absent"

\* C5: a cold start (no local entry, no remote parameter) that succeeds calls
\* get, generate(40), put(/{stack}/api-key, value, caller's key id,
\* overwrite=false) and the cache write in that order, once each, and the value
\* returned is the one persisted remotely and cached locally.
C5_ColdStart ==
    \A p \in Procs :
        LET c == cur[p]
            name == ParamName(c.stack)
        IN
        (/\ c.status = "done" /\ ~c.test
         /\ c.local0 = None
         /\ c.remote0.Type = "absent"
         /\ c.calls # <<>> /\ c.calls[1].out = "ParameterNotFound") =>
            /\ Ops(c) = <<"get", "gen", "put", "save">>
            /\ c.calls[1].name = name
            /\ c.calls[2].len = 40 /\ c.calls[2].val = c.value
            /\ c.calls[3].name = <<"/", c.stack, "/api-key">>
            /\ c.calls[3].val = c.value
            /\ c.calls[3].overwrite = FALSE
            /\ c.calls[3].keyId = c.keyId
            /\ c.calls[4].name = <<c.account, c.stack>>
            /\ c.calls[4].val = c.value
            /\ ssmStore[name].Value = c.value.v
            /\ ssmStore[name].Type = "SecureString"
            /\ ssmStore[name].KeyId = c.keyId
            /\ CacheEntry(keys[p], c.account, c.stack) = c.value
            /\ c.declared = c.value

C5_Witness ==
    \E p \in Procs :
        /\ cur[p].status = "done" /\ ~cur[p].test
        /\ cur[p].local0 = None /\ cur[p].remote0.Type = "absent"
        /\ Len(cur[p].calls) = 4
        /\ cur[p].keyId = "kms1"

\* C6 (as claimed): whenever generate is called for a stack, neither the
\* caller's local cache nor the remote store holds a value for it, also when
\* several invocations resolve the same pair.
C6_NeverGenerateOnceExists ==
    [][\A p \in Procs :
        (pc[p] = "gen" /\ pc'[p] # "gen") =>
            /\ CacheEntry(keys[p], cur[p].account, cur[p].stack) = None
            /\ ssmStore[ParamName(cur[p].stack)].Type = "absent"
      ]_vars

\* C6 (amended): whenever generate is called, the caller's local cache holds no
\* entry for the pair and the resolve's own get of /{stack}/api-key, its only
\* call so far, was answered parameter-not-found.
C6_GenerateOnlyAfterMisses ==
    [][\A p \in Procs :
        (pc[p] = "gen" /\ pc'[p] # "gen") =>
            LET c == cur[p] IN
            /\ CacheEntry(keys[p], c.account, c.stack) = None
            /\ c.local0 = None
            /\ Ops(c) = <<"get">>
            /\ c.calls[1].name = ParamName(c.stack)
            /\ c.calls[1].out = "ParameterNotFound"
      ]_vars

C6_Witness ==
    \E p \in Procs :
        /\ CallsOf(cur[p], "gen") # {}
        /\ ~cur[p].counted
        /\ ssmStore[ParamName(cur[p].stack)].Type # "absent"

\* C7 (as claimed): when the remote store holds no value as a non-test resolve
\* begins, the value the resolve returns has been created once and is the
\* remote parameter's value, whatever the local cache holds.
C7_RemoteAuthoritative ==
    \A p \in Procs :
        LET c == cur[p]
            name == ParamName(c.stack)
        IN
        (c.status = "done" /\ ~c.test /\ c.remote0.Type = "absent") =>
            /\ ssmStore[name].Type # "absent"
            /\ c.value = ValueOf(ssmStore[name])
            /\ Cardinality(CallsOf(c, "gen")) <= 1
            /\ \A i \in CallsOf(c, "put") :
                  c.calls[i].val = c.value /\ c.calls[i].out = "none"

\* C7 (amended): the same, for a resolve that finds no local cache entry for the
\* pair; a local hit is returned without consulting the remote store.
C7_RemoteAuthoritativeOnLocalMiss ==
    \A p \in Procs :
        LET c == cur[p]
            name == ParamName(c.stack)
        IN
        (/\ c.status = "done" /\ ~c.test /\ c.remote0.Type = "absent"
         /\ c.local0 = None) =>
            /\ ssmStore[name].Type # "absent"
            /\ c.value = ValueOf(ssmStore[name])
            /\ Cardinality(CallsOf(c, "gen")) <= 1
            /\ \A i \in CallsOf(c, "put") :
                  c.calls[i].val = c.value /\ c.calls[i].out = "none"

C7_Witness ==
    \E p \in Procs :
        /\ cur[p].status = "done" /\ ~cur[p].test
        /\ cur[p].remote0.Type = "absent" /\ cur[p].local0 = None
        /\ CallsOf(cur[p], "put") # {}

\* C8: put is only issued with overwrite=false and after a get of the same name
\* answered not-found, and once /{stack}/api-key has a value that value never
\* changes, in any interleaving of resolves.
C8_NeverOverwrites ==
    [][/\ \A n \in ParamNames :
            ssmStore[n].Type # "absent" => ssmStore'[n] = ssmStore[n]
       /\ \A p \in Procs : \A i \in CallsOf(cur'[p], "put") :
            /\ cur'[p].calls[i].overwrite = FALSE
            /\ \E j \in 1..(i - 1) :
                  /\ cur'[p].calls[j].op = "get"
                  /\ cur'[p].calls[j].name = cur'[p].calls[i].name
                  /\ cur'[p].calls[j].out = "ParameterNotFound"
      ]_vars

C8_Witness ==
    \E p \in Procs :
        /\ cur[p].status = "failed"
        /\ cur[p].error = "ParameterAlreadyExists"
        /\ ssmStore[ParamName(cur[p].stack)].Value # cur[p].value.v

\* C9: when the get (other than not-found), the generate or the put of a resolve
\* fails, the resolve aborts with that error, returns no value and declares no
\* API key, usage plan or APIKey output; what is declared is always the resolved,
\* non-empty value.
C9_FailureAborts ==
    \A p \in Procs :
        LET c == cur[p] IN
        /\ FailedCalls(c) # {} =>
              /\ c.status = "failed"
              /\ FailedCalls(c) = {Len(c.calls)}
              /\ c.error = c.calls[Len(c.calls)].out
              /\ c.declared = None /\ c.output = None
        /\ c.status = "failed" => (c.declared = None /\ c.output = None)
        /\ (c.declared # None \/ c.output # None) =>
              /\ c.status = "done"
              /\ c.declared = c.value /\ c.output = c.value
              /\ c.value # None /\ c.value.v # <<>>

C9_Witness ==
    \E p \in Procs :
        /\ cur[p].status = "failed"
        /\ CallsOf(cur[p], "put") # {}
        /\ cur[p].error = "AccessDeniedException"

\* C10: get_param hands back None exactly when the store answers
\* parameter-not-found, and the resolver then goes on to generate without an
\* error; any other failure of the get is raised and never leads to generate.
C10_NotFoundOnly ==
    \A p \in Procs :
        LET c == cur[p] IN
        \A i \in CallsOf(c, "get") :
            /\ (c.calls[i].raised = "none" /\ c.calls[i].val = None) <=>
                  (c.calls[i].out = "ParameterNotFound")
            /\ c.calls[i].out = "ParameterNotFound" =>
                  /\ ~(c.status = "failed" /\ Len(c.calls) = i)
                  /\ (pc[p] = "gen" \/ (Len(c.calls) > i /\ c.calls[i + 1].op = "gen"))
            /\ c.calls[i].out \notin {"none", "ParameterNotFound"} =>
                  /\ c.calls[i].raised = c.calls[i].out
                  /\ c.status = "failed" /\ c.error = c.calls[i].out
                  /\ Len(c.calls) = i
                  /\ CallsOf(c, "gen") = {}

C10_Witness ==
    \E p \in Procs, q \in Procs :
        /\ cur[p].status = "failed" /\ Ops(cur[p]) = <<"get">>
        /\ cur[p].error = "AccessDeniedException"
        /\ CallsOf(cur[q], "gen") # {}

\* C11: a resolve in test mode returns 'test123' for every pair, whatever the
\* local cache and the remote store hold, with no remote call, no cache lookup
\* and no cache write; the mapping, the file and the remote store are unchanged.
C11_TestModeBypass ==
    [][\A p \in Procs :
        (cur'[p] # cur[p] /\ cur'[p].test) =>
            /\ cur'[p].status = "done"
            /\ cur'[p].value = Str(<<"test123">>)
            /\ cur'[p].declared = Str(<<"test123">>)
            /\ cur'[p].calls = <<>>
            /\ cur'[p].lookups = 0
            /\ pc'[p] = "idle"
            /\ keys' = keys /\ cacheFile' = cacheFile /\ ssmStore' = ssmStore
      ]_vars

C11_Witness ==
    \E p \in Procs :
        /\ cur[p].test /\ cur[p].status = "done"
        /\ cur[p].local0 # None
        /\ cur[p].remote0.Type # "absent"
        /\ cur[p].value # cur[p].local0

\* C12: when two invocations resolve the same stack and both see the parameter
\* absent, the put that reaches the store second is refused and the refusal is
\* raised from the resolve: the loser declares nothing, writes nothing to its
\* cache, and the remote record keeps the first writer's value.
C12_ConflictingWriteSurfaced ==
    [][\A p \in Procs :
        (/\ pc[p] = "put" /\ pc'[p] # "put"
         /\ ssmStore[ParamName(cur[p].stack)].Type # "absent") =>
            LET c == cur'[p] IN
            /\ c.status = "failed"
            /\ c.error \in {"ParameterAlreadyExists"} \cup (Faults \ {"none"})
            /\ c.calls[Len(c.calls)].op = "put"
            /\ c.calls[Len(c.calls)].raised = c.error
            /\ c.declared = None /\ c.output = None
            /\ CallsOf(c, "save") = {}
            /\ keys' = keys /\ cacheFile' = cacheFile
            /\ ssmStore' = ssmStore
      ]_vars

C12_Witness ==
    \E p \in Procs, q \in Procs :
        /\ p # q /\ cur[p].stack = cur[q].stack
        /\ cur[p].status = "failed" /\ cur[p].error = "ParameterAlreadyExists"
        /\ cur[q].status = "done" /\ CallsOf(cur[q], "put") # {}
        /\ ssmStore[ParamName(cur[q].stack)].Value = cur[q].value.v
        /\ cur[p].value # cur[q].value
        /\ CacheEntry(keys[p], cur[p].account, cur[p].stack) = None

\* C13: every HTTP method registered through add_methods, add_lambda_methods
\* or add_resource_and_lambda_methods requires an API key (IAM authorization on
\* an IAMSecureRestApi), on the given resource or on the root when none is
\* given; a call with no methods raises 'At least one HTTP method is required.'
\* and registers no method.
C13_MethodsSecured ==
    /\ \A i \in DOMAIN api.methods :
          /\ api.kind = "SecureRestApi" => api.methods[i].api_key_required = TRUE
          /\ api.kind = "IAMSecureRestApi" =>
                api.methods[i].authorization_type = "IAM"
    /\ api.nCalls > 0 =>
          LET l == api.last
              n == Len(l.methods)
          IN  /\ Len(api.methods) = l.before + n
              /\ \A i \in 1..n :
                    /\ api.methods[l.before + i].http = l.methods[i].name
                    /\ api.methods[l.before + i].resource =
                          (IF l.resource.given THEN l.resource.path ELSE <<"/">>)
              /\ (n = 0) <=> (api.error = "At least one HTTP method is required.")
              /\ l.op = "add_resource_and_lambda_methods" =>
                    /\ l.resource.given
                    /\ api.resources[Len(api.resources)] = l.resource.path

C13_Witness ==
    /\ api.kind = "IAMSecureRestApi"
    /\ Len(api.methods) = 2
    /\ api.error = "At least one HTTP method is required."
    /\ api.last.op = "add_resource_and_lambda_methods"

\* C14: one resolve goes through local lookup, remote get, generate-and-store
\* and completion in that order, no stage twice and no retry: at most one get,
\* one generate and one put, the put only after a get that found no parameter
\* and a generate that succeeded; and it always ends, done or failed.
C14_StageOrder ==
    \A p \in Procs :
        LET c == cur[p]
            ops == Ops(c)
        IN  /\ c.status = "none" => ops = <<>> /\ pc[p] \in {"off", "idle", "crashed"}
            /\ c.status = "running" <=> pc[p] \in {"get", "gen", "put", "save", "dump"}
            /\ pc[p] = "get" => ops = <<>> /\ c.lookups = 1
            /\ pc[p] = "gen" => ops = <<"get">>
            /\ pc[p] = "put" => ops = <<"get", "gen">>
            /\ pc[p] \in {"save", "dump"} =>
                  /\ ops \in {<<"get">>, <<"get", "gen", "put">>}
                  /\ c.calls[Len(ops)].raised = "none"
                  /\ c.value # None
            /\ c.status = "done" =>
                  ops \in {<<>>, <<"get", "save">>, <<"get", "gen", "put", "save">>}
            /\ c.status = "failed" =>
                  /\ ops \in {<<"get">>, <<"get", "gen">>, <<"get", "gen", "put">>}
                  /\ c.calls[Len(ops)].raised # "none"
            /\ \A i \in DOMAIN c.calls :
                  i < Len(ops) => c.calls[i].raised = "none"
            /\ \A i \in CallsOf(c, "gen") \cup CallsOf(c, "put") :
                  /\ c.calls[1].out = "ParameterNotFound"
                  /\ c.calls[1].val = None
            /\ \A i \in CallsOf(c, "put") :
                  /\ c.calls[2].val # None
                  /\ c.calls[i].val = c.calls[2].val

C14_StrictOrderTerminates ==
    /\ []C14_StageOrder
    /\ \A p \in Procs :
          (cur[p].status = "running") ~> (cur[p].status \in {"done", "failed"})

C14_Witness ==
    \E p, q \in Procs :
        /\ cur[p].status = "done"
        /\ Ops(cur[p]) = <<"get", "gen", "put", "save">>
        /\ cur[q].status = "failed"
        /\ Ops(cur[q]) = <<"get", "gen">>

\* C15: save_api_key sets only the (account, stack) entry and rewrites the
\* whole file: within one process (no other writer between its opening the
\* file and its writing it) the file after each save holds exactly the
\* in-memory mapping, every other entry keeps its value, and no entry is ever
\* removed.
C15_SaveRewritesWholeMapping ==
    [][\A p \in Procs :
          /\ OpenStep(p) =>
                /\ CacheEntry(keys'[p], cur[p].account, cur[p].stack) = cur[p].value
                /\ cur[p].value # None
                /\ \A a \in Accounts, s \in Stacks :
                      <<a, s>> # <<cur[p].account, cur[p].stack>> =>
                          CacheEntry(keys'[p], a, s) = CacheEntry(keys[p], a, s)
          /\ (SaveStep(p) /\ cacheFile.len = 0) =>
                /\ cacheFile'.state = "json"
                /\ keys'[p] = keys[p]
                /\ \A a \in Accounts, s \in Stacks :
                      FileEntry(cacheFile', a, s) = CacheEntry(keys'[p], a, s)
          /\ nImport' = nImport =>
                \A a \in Accounts, s \in Stacks :
                    CacheEntry(keys[p], a, s) # None =>
                        CacheEntry(keys'[p], a, s) # None
      ]_vars

C15_Witness ==
    \E p \in Procs :
        /\ cur[p].status = "done"
        /\ CallsOf(cur[p], "save") # {}
        /\ cur[p].account = "a1" /\ cur[p].stack = "s2"
        /\ CacheEntry(keys[p], "a1", "s1") = Str(<<"k1">>)
        /\ FileEntry(cacheFile, "a1", "s1") = Str(<<"k1">>)
        /\ FileEntry(cacheFile, "a1", "s2") = cur[p].value

\* C16: the cache file is not locked and the last writer wins: when two
\* invocations save, the file after a completed save equals the complete
\* mapping of the process that wrote last, so an entry the other invocation
\* saved, which the last writer never loaded, is gone from the file.
C16_LastWriterWins ==
    [][\A p \in Procs :
          SaveStep(p) =>
              /\ cacheFile'.state = "json"
              /\ json_load(cacheFile'.doc) = keys'[p]
      ]_vars

\* C17: the cache file is loaded once per process. A missing file gives an
\* empty mapping and the file appears only with the first save; a file that is
\* no JSON makes the load fail, the failed load leaves the file as it is, and
\* the process never resolves with an empty mapping in its place.
C17_LoadState ==
    \A p \in Procs :
        /\ pc[p] = "crashed" =>
              /\ cur[p].status = "none"
              /\ keys[p] = [x \in {} |-> None]
        /\ cacheFile.state = "missing" =>
              /\ pc[p] \in {"off", "idle", "get", "gen", "put", "save"}
              /\ keys[p] = [x \in {} |-> None]

C17_LoadOnce ==
    /\ []C17_LoadState
    /\ [][/\ nImport' # nImport =>
                /\ cacheFile' = cacheFile
                /\ cacheFile.state = "malformed" =>
                      \E p \in Procs : pc[p] # "crashed" /\ pc'[p] = "crashed"
                /\ cacheFile.state # "malformed" =>
                      \A p \in Procs : pc'[p] = "crashed" => pc[p] = "crashed"
                /\ cacheFile.state = "missing" =>
                      \A p \in Procs : keys'[p] = [x \in {} |-> None]
          /\ \A p \in Procs :
                /\ pc[p] = "crashed" =>
                      pc'[p] = "crashed" /\ cur'[p] = cur[p] /\ keys'[p] = keys[p]
                /\ (nImport' = nImport /\ keys'[p] # keys[p]) => OpenStep(p)
          /\ (nImport' = nImport /\ cacheFile' # cacheFile) =>
                \E p \in Procs : OpenStep(p) \/ SaveStep(p)
        ]_vars

C17_Witness ==
    /\ cacheFile.state = "malformed"
    /\ \E p \in Procs : pc[p] = "crashed"
    /\ nImport = 2

\* C18: started from an empty local cache, every entry of the local cache, in
\* memory or in the file, equals the value of the remote parameter
\* /{stack_name}/api-key; the cache never holds a value that is not the
\* remote one, also when invocations race on a stack.
C18_LocalEqualsRemote ==
    \A a \in Accounts, s \in Stacks :
        LET remote == ssmStore[<<"/", s, "/api-key">>]
            agrees(e) == e # None =>
                            /\ remote.Type # "absent"
                            /\ e = [t |-> "str", v |-> remote.Value]
        IN  /\ agrees(FileEntry(cacheFile, a, s))
            /\ \A p \in Procs : agrees(CacheEntry(keys[p], a, s))

\* C19: a resolve that aborts on an error of the remote get, the generator or
\* the remote put leaves the local cache, mapping and file, as it was; a
\* resolve that finds the pair in the local cache never calls save_api_key, so
\* resolve never rewrites an existing local entry.
C19_AbortAndHitLeaveCache ==
    [][\A p \in Procs :
          /\ (cur'[p] # cur[p] /\ nImport' = nImport /\ ~SaveStep(p)) =>
                /\ keys' = keys
                /\ cacheFile' = cacheFile
          /\ (cur'[p] # cur[p] /\ cur'[p].status = "failed") =>
                /\ pc[p] \in {"get", "gen", "put"}
                /\ CallsOf(cur'[p], "save") = {}
                /\ cur'[p].error \in {cur'[p].calls[i].raised : i \in RemoteCalls(cur'[p])}
                /\ CacheEntry(keys'[p], cur'[p].account, cur'[p].stack) = cur'[p].local0
          /\ (cur'[p] # cur[p] /\ ~cur'[p].test /\ cur'[p].local0 # None) =>
                /\ cur'[p].status = "done"
                /\ cur'[p].value = cur'[p].local0
                /\ cur'[p].calls = <<>>
          /\ OpenStep(p) =>
                /\ cur[p].local0 = None
                /\ CacheEntry(keys[p], cur[p].account, cur[p].stack) = None
      ]_vars

C19_Witness ==
    \E p \in Procs :
        /\ cur[p].status = "failed"
        /\ Ops(cur[p]) = <<"get", "gen", "put">>
        /\ CacheEntry(keys[p], "a1", "s1") = Str(<<"k1">>)
        /\ FileEntry(cacheFile, "a1", "s1") = Str(<<"k1">>)
        /\ CacheEntry(keys[p], cur[p].account, cur[p].stack) = None

====
